---- MODULE Spec2Model ----
(***************************************************************************)
(* A model of app.py, the college-event tracker: the JSON event file, the  *)
(* per-request reload (check_initialization), the admin CRUD handlers, the *)
(* 7-day upcoming filter, the TF-IDF recommender and the keyword chatbot.  *)
(*                                                                         *)
(* Text is modelled at character level: a Python str is a sequence of      *)
(* one-character strings, so that lower(), the `in` substring test, the    *)
(* tokenizer and strptime are computed rather than assumed.                *)
(***************************************************************************)
EXTENDS Integers, Sequences, FiniteSets, TLC

VARIABLES
    file,             \* the content of EVENT_FILE on disk
    GLOBAL_EVENTS,    \* app.py:115, rebound by check_initialization
    GLOBAL_VECTORIZER,\* app.py:116, the fitted vectorizer or None
    GLOBAL_MATRIX,    \* app.py:117, the TF-IDF matrix or None
    session,          \* per client: the Flask session's 'logged_in'
    response,         \* what the last request returned
    history,          \* ghost: the successful mutations, applied in order
    threads           \* per server thread: the request it is serving

vars == <<file, GLOBAL_EVENTS, GLOBAL_VECTORIZER, GLOBAL_MATRIX, session,
          response, history, threads>>

----------------------------------------------------------------------------
(* Characters and strings *)

UpperChars == <<"A","B","C","D","E","F","G","H","I","J","K","L","M",
                "N","O","P","Q","R","S","T","U","V","W","X","Y","Z">>
LowerChars == <<"a","b","c","d","e","f","g","h","i","j","k","l","m",
                "n","o","p","q","r","s","t","u","v","w","x","y","z">>
DigitChars == <<"0","1","2","3","4","5","6","7","8","9">>

Range(s) == {s[i] : i \in DOMAIN s}

UpperSet == Range(UpperChars)
DigitSet == Range(DigitChars)
\* \w of the tokenizer's pattern: a letter, a digit or the underscore
WordCharSet == UpperSet \cup Range(LowerChars) \cup DigitSet \cup {"_"}
\* the lower-case letter of each upper-case letter
ToLower ==
    [c \in UpperSet |->
        LowerChars[CHOOSE i \in DOMAIN UpperChars : UpperChars[i] = c]]
\* the value of each digit
DigitVal ==
    [c \in DigitSet |-> (CHOOSE i \in DOMAIN DigitChars : DigitChars[i] = c) - 1]

IsDigit(c) == c \in DigitSet
IsWordChar(c) == c \in WordCharSet
LowerChar(c) == IF c \in UpperSet THEN ToLower[c] ELSE c

\* str.lower()
Lower(s) == [i \in DOMAIN s |-> LowerChar(s[i])]

\* Python's `sub in s` for two strings
In(sub, s) ==
    \E i \in 0..(Len(s) - Len(sub)) : SubSeq(s, i + 1, i + Len(sub)) = sub

RECURSIVE Concat(_)
\* "".join(parts)
Concat(parts) ==
    IF parts = <<>> THEN <<>> ELSE Head(parts) \o Concat(Tail(parts))

\* all sequences over S of length at most n
SeqsUpTo(S, n) == UNION {[1..k -> S] : k \in 0..n}

----------------------------------------------------------------------------
(* Configuration, app.py:10-14 *)

ADMIN_USER == <<"a","d","m","i","n">>
ADMIN_PASS == <<"p","a","s","s","w","o","r","d","1","2","3">>

----------------------------------------------------------------------------
(* Python dicts and the JSON text of the event file                        *)
(*                                                                         *)
(* A dict is the sequence of its <<key, value>> items in insertion order,  *)
(* with no key twice.  Keys and values are strings.                        *)

\* The keys of an event, app.py:208-214, and of the login form, app.py:170
Key == [title |-> <<"t","i","t","l","e">>, description |-> <<"d","e","s","c","r","i","p","t","i","o","n">>,
        date |-> <<"d","a","t","e">>, venue |-> <<"v","e","n","u","e">>, url |-> <<"u","r","l">>,
        username |-> <<"u","s","e","r","n","a","m","e">>, password |-> <<"p","a","s","s","w","o","r","d">>]

DictKeys(d) == {d[i][1] : i \in DOMAIN d}
\* key in d
DictHas(d, k) == \E i \in DOMAIN d : d[i][1] = k
\* d[k], for a key of d
DictGet(d, k) == d[CHOOSE i \in DOMAIN d : d[i][1] = k][2]
\* d.get(k, default)
DictGetOr(d, k, default) == IF DictHas(d, k) THEN DictGet(d, k) ELSE default
\* d[k] = v: an existing key keeps its place, a new one goes last
DictSet(d, k, v) ==
    IF DictHas(d, k)
    THEN [i \in DOMAIN d |-> IF d[i][1] = k THEN <<k, v>> ELSE d[i]]
    ELSE Append(d, <<k, v>>)
\* d1 == d2 in Python: the same keys with the same values, in any order
DictEq(d1, d2) ==
    /\ DictKeys(d1) = DictKeys(d2)
    /\ \A i \in DOMAIN d1 : DictGet(d2, d1[i][1]) = d1[i][2]
\* list equality of two lists of dicts
ListEq(l1, l2) ==
    /\ Len(l1) = Len(l2)
    /\ \A i \in DOMAIN l1 : DictEq(l1[i], l2[i])

(* The file's text is a sequence of JSON tokens: punctuation and string    *)
(* literals.  json.dump writes them, json.load parses them back.           *)
Punct(c) == [t |-> "punct", v |-> <<c>>]
Str(s)   == [t |-> "str", v |-> s]

(* A string literal holds the text between its quotes.  json.dump writes   *)
(* a quote, a backslash and a newline with a backslash before them;        *)
(* json.load takes the backslashes out again, and refuses a literal with   *)
(* a bare quote or newline or with a backslash before any other character  *)
(* (of JSON's escapes, these and \/ and \t are the ones modelled).         *)
Special == {"\"", "\\", "\n"}
Plain(s) == \A i \in DOMAIN s : s[i] \notin Special

EscapeChar(c) ==
    IF c = "\n" THEN <<"\\", "n">> ELSE IF c \in Special THEN <<"\\", c>>
    ELSE <<c>>

\* the string written between quotes as it is
NoEscape(s) == s

\* the literal json.dump writes for the string s
Escape(s) ==
    IF Plain(s) THEN s ELSE Concat([i \in DOMAIN s |-> EscapeChar(s[i])])

NoString == [ok |-> FALSE, val |-> <<>>]
\* the character the escape backslash-c stands for, <<>> when it is none
Escaped(c) ==
    IF c \in {"\"", "\\", "/"} THEN <<c>>
    ELSE IF c = "n" THEN <<"\n">> ELSE IF c = "t" THEN <<"\t">> ELSE <<>>

RECURSIVE Unescaped(_, _, _)
\* s read from position i on, out the text read so far
Unescaped(s, i, out) ==
    IF i > Len(s) THEN [ok |-> TRUE, val |-> out]
    ELSE IF s[i] = "\\"
    THEN IF i = Len(s) \/ Escaped(s[i + 1]) = <<>> THEN NoString
         ELSE Unescaped(s, i + 2, out \o Escaped(s[i + 1]))
    ELSE IF s[i] \in Special THEN NoString
    ELSE Unescaped(s, i + 1, Append(out, s[i]))

\* the string json.load reads from the literal s, ok = FALSE when it is
\* no string literal
Unescape(s) ==
    IF Plain(s) THEN [ok |-> TRUE, val |-> s] ELSE Unescaped(s, 1, <<>>)

RECURSIVE DumpItems(_)
\* "key": value, "key": value, ...
DumpItems(d) ==
    IF d = <<>> THEN <<>>
    ELSE <<Str(Escape(d[1][1])), Punct(":"), Str(Escape(d[1][2]))>>
         \o (IF Len(d) > 1 THEN <<Punct(",")>> ELSE <<>>)
         \o DumpItems(Tail(d))

RECURSIVE DumpObjects(_)
DumpObjects(l) ==
    IF l = <<>> THEN <<>>
    ELSE <<Punct("{")>> \o DumpItems(l[1]) \o <<Punct("}")>>
         \o (IF Len(l) > 1 THEN <<Punct(",")>> ELSE <<>>)
         \o DumpObjects(Tail(l))

\* json.dump(events_list, f): the text of a list of dicts
JsonDump(l) == <<Punct("[")>> \o DumpObjects(l) \o <<Punct("]")>>

(* The parser.  Each step takes the tokens and a position and returns      *)
(* [ok, val, pos]: ok is FALSE for a JSONDecodeError.                      *)
Fail == [ok |-> FALSE, val |-> <<>>, pos |-> 0]
Parsed(val, pos) == [ok |-> TRUE, val |-> val, pos |-> pos]
TokIs(toks, p, c) == p <= Len(toks) /\ toks[p].t = "punct" /\ toks[p].v[1] = c
TokIsStr(toks, p) ==
    p <= Len(toks) /\ toks[p].t = "str" /\ Unescape(toks[p].v).ok
\* the string of the literal at p
StrAt(toks, p) == Unescape(toks[p].v).val

RECURSIVE ParseItems(_, _, _)
\* at p: "key" : "value", then "," and the next item, or "}"
ParseItems(toks, p, d) ==
    IF ~(TokIsStr(toks, p) /\ TokIs(toks, p + 1, ":") /\ TokIsStr(toks, p + 2))
    THEN Fail
    ELSE IF TokIs(toks, p + 3, ",")
    THEN ParseItems(toks, p + 4,
                    DictSet(d, StrAt(toks, p), StrAt(toks, p + 2)))
    ELSE IF TokIs(toks, p + 3, "}")
    THEN Parsed(DictSet(d, StrAt(toks, p), StrAt(toks, p + 2)), p + 4)
    ELSE Fail

\* an object starting at p
ParseObject(toks, p) ==
    IF ~TokIs(toks, p, "{") THEN Fail
    ELSE IF TokIs(toks, p + 1, "}") THEN Parsed(<<>>, p + 2)
    ELSE ParseItems(toks, p + 1, <<>>)

RECURSIVE ParseObjects(_, _, _)
\* o is the object just parsed, l the objects before it: "," and the next
\* object, or "]"
AfterObject(toks, o, l) ==
    IF ~o.ok THEN Fail
    ELSE IF TokIs(toks, o.pos, ",")
    THEN ParseObjects(toks, o.pos + 1, Append(l, o.val))
    ELSE IF TokIs(toks, o.pos, "]") THEN Parsed(Append(l, o.val), o.pos + 1)
    ELSE Fail

ParseObjects(toks, p, l) == AfterObject(toks, ParseObject(toks, p), l)

\* a parse that stops at the closing bracket and leaves the rest unread
AnyRest(toks, r) == r

\* text left over after the closing bracket is an error too
WholeText(toks, r) == IF r.ok /\ r.pos = Len(toks) + 1 THEN r ELSE Fail

\* json.load(f): the list of dicts, or a JSONDecodeError (ok = FALSE)
JsonLoad(toks) ==
    IF ~TokIs(toks, 1, "[") THEN Fail
    ELSE IF TokIs(toks, 2, "]") THEN WholeText(toks, Parsed(<<>>, 3))
    ELSE WholeText(toks, ParseObjects(toks, 2, <<>>))

----------------------------------------------------------------------------
(* Dates: datetime.strptime(s, "%Y-%m-%d").date() and date arithmetic      *)
(*                                                                         *)
(* A date is <<year, month, day>>.                                         *)

IsLeap(y) == (y % 4 = 0 /\ y % 100 # 0) \/ y % 400 = 0

DaysInMonth(y, m) ==
    IF m = 2 THEN (IF IsLeap(y) THEN 29 ELSE 28)
    ELSE IF m \in {4, 6, 9, 11} THEN 30 ELSE 31

RECURSIVE DaysBeforeMonth(_, _)
DaysBeforeMonth(y, m) ==
    IF m = 1 THEN 0 ELSE DaysBeforeMonth(y, m - 1) + DaysInMonth(y, m - 1)

\* date.toordinal(): the days from 0001-01-01, which is day 1
ToOrdinal(dt) ==
    365 * (dt[1] - 1) + ((dt[1] - 1) \div 4) - ((dt[1] - 1) \div 100)
        + ((dt[1] - 1) \div 400) + DaysBeforeMonth(dt[1], dt[2]) + dt[3]

\* d1 <= d2 on dates: year, then month, then day
DateLeq(d1, d2) ==
    \/ d1[1] < d2[1]
    \/ d1[1] = d2[1] /\ d1[2] < d2[2]
    \/ d1[1] = d2[1] /\ d1[2] = d2[2] /\ d1[3] <= d2[3]

RECURSIVE AddDays(_, _)
\* dt + timedelta(days=n), n >= 0
AddDays(dt, n) ==
    IF n = 0 THEN dt
    ELSE IF dt[3] < DaysInMonth(dt[1], dt[2])
         THEN AddDays(<<dt[1], dt[2], dt[3] + 1>>, n - 1)
         ELSE IF dt[2] < 12
              THEN AddDays(<<dt[1], dt[2] + 1, 1>>, n - 1)
              ELSE AddDays(<<dt[1] + 1, 1, 1>>, n - 1)

\* %m of strptime: 1[0-2]|0[1-9]|[1-9]; 0 when the text is no month
MonthField(t) ==
    IF Len(t) = 2 /\ t[1] = "1" /\ t[2] \in {"0", "1", "2"}
        THEN 10 + DigitVal[t[2]]
    ELSE IF Len(t) = 2 /\ t[1] = "0" /\ IsDigit(t[2]) /\ t[2] # "0"
        THEN DigitVal[t[2]]
    ELSE IF Len(t) = 1 /\ IsDigit(t[1]) /\ t[1] # "0"
        THEN DigitVal[t[1]]
    ELSE 0

\* %d of strptime: 3[01]|[12]\d|0[1-9]|[1-9]| [1-9]; 0 when no day
DayField(t) ==
    IF Len(t) = 2 /\ t[1] = "3" /\ t[2] \in {"0", "1"}
        THEN 30 + DigitVal[t[2]]
    ELSE IF Len(t) = 2 /\ t[1] \in {"1", "2"} /\ IsDigit(t[2])
        THEN 10 * DigitVal[t[1]] + DigitVal[t[2]]
    ELSE IF Len(t) = 2 /\ t[1] \in {"0", " "} /\ IsDigit(t[2]) /\ t[2] # "0"
        THEN DigitVal[t[2]]
    ELSE IF Len(t) = 1 /\ IsDigit(t[1]) /\ t[1] # "0"
        THEN DigitVal[t[1]]
    ELSE 0

\* %Y of strptime: \d\d\d\d; 0 when the text is no year
YearField(t) ==
    IF Len(t) = 4 /\ \A i \in 1..4 : IsDigit(t[i])
    THEN 1000 * DigitVal[t[1]] + 100 * DigitVal[t[2]] + 10 * DigitVal[t[3]]
         + DigitVal[t[4]]
    ELSE 0

\* The result of strptime: ok = FALSE is a ValueError
NoDate == [ok |-> FALSE, date |-> <<0, 0, 0>>]

\* datetime(y, m, d): a ValueError when the fields name no day of the
\* calendar (a field of 0 stands for a text that did not match)
MakeDate(y, m, d) ==
    IF y >= 1 /\ m >= 1 /\ d >= 1 /\ d <= DaysInMonth(y, m)
    THEN [ok |-> TRUE, date |-> <<y, m, d>>]
    ELSE NoDate

\* s split at its hyphens, the second of which is at position j
SplitDate(s, j) ==
    MakeDate(YearField(SubSeq(s, 1, 4)), MonthField(SubSeq(s, 6, j - 1)),
             DayField(SubSeq(s, j + 1, Len(s))))

\* datetime.strptime(s, "%Y-%m-%d"): four digits, a hyphen, a month of one
\* or two characters, a hyphen, a day, and nothing after it
strptime(s) ==
    IF Len(s) >= 8 /\ s[5] = "-" /\ s[6] # "-"
    THEN IF s[7] = "-" THEN SplitDate(s, 7)
         ELSE IF s[8] = "-" THEN SplitDate(s, 8)
         ELSE NoDate
    ELSE NoDate

----------------------------------------------------------------------------
(* TfidfVectorizer(stop_words='english') and cosine_similarity             *)

\* The words of scikit-learn's English stop list that the model's texts use
STOP_WORDS == {<<"t","h","e">>, <<"a","n","d">>, <<"o","f">>, <<"f","o","r">>, <<"i","n">>, <<"i","s">>, <<"t","o">>,
               <<"o","n">>, <<"a","t">>, <<"a","n">>, <<"w","i","t","h">>}

\* the run cur ends: it is a token if it has two characters or more
Flush(cur, out) == IF Len(cur) >= 2 THEN Append(out, cur) ELSE out

RECURSIVE Scan(_, _, _)
\* The matches of the token pattern \b\w\w+\b, left to right: the maximal
\* runs of word characters that are at least two characters long.  cur is
\* the run being read, out the tokens found so far.
Scan(s, cur, out) ==
    IF s = <<>> THEN Flush(cur, out)
    ELSE IF IsWordChar(Head(s)) THEN Scan(Tail(s), Append(cur, Head(s)), out)
         ELSE Scan(Tail(s), <<>>, Flush(cur, out))

IsNoStopWord(t) == t \notin STOP_WORDS

\* The analyzer: lower-case, tokenize, drop the stop words
Analyze(doc) == SelectSeq(Scan(Lower(doc), <<>>, <<>>), IsNoStopWord)

\* The number of times term t occurs among tokens
Count(tokens, t) == Cardinality({i \in DOMAIN tokens : tokens[i] = t})

\* 10 * ln(k), rounded, for k = 1..8
LnTenths == <<0, 7, 11, 14, 16, 18, 19, 21>>

\* The smoothed idf, ln((1 + n) / (1 + df)) + 1, in tenths
Idf(n, df) == LnTenths[1 + n] - LnTenths[1 + df] + 10

None == [fitted |-> FALSE, vocabulary |-> {}, idf |-> <<>>]
NoMatrix == <<>>
\* what get_ai_components returns, or raised for the ValueError it lets out
Components(vectorizer, matrix) ==
    [raised |-> FALSE, vectorizer |-> vectorizer, matrix |-> matrix]
EmptyVocabulary == [raised |-> TRUE, vectorizer |-> None, matrix |-> NoMatrix]

\* f"{e.get('title', '')} {e.get('description', '')} {e.get('venue', '')}"
Document(e) ==
    DictGetOr(e, Key.title, <<>>) \o <<" ">>
        \o DictGetOr(e, Key.description, <<>>) \o <<" ">>
        \o DictGetOr(e, Key.venue, <<>>)

\* The corpus of get_ai_components, app.py:48-51
Corpus(events_list) == [i \in DOMAIN events_list |-> Document(events_list[i])]

\* A row of the TF-IDF matrix: term frequency times idf for each term of
\* the vocabulary.  The rows are kept unnormalised; cosine similarity does
\* not depend on the length of a row.
Row(tokens, vectorizer) ==
    [t \in vectorizer.vocabulary |-> Count(tokens, t) * vectorizer.idf[t]]

\* the number of documents that hold term t
DocFreq(docs, t) == Cardinality({i \in DOMAIN docs : t \in Range(docs[i])})

\* the vectorizer fitted on the analyzed documents, whose terms are vocab
Fitted(docs, vocab) ==
    [fitted |-> TRUE, vocabulary |-> vocab,
     idf |-> [t \in vocab |-> Idf(Len(docs), DocFreq(docs, t))]]

TransformAll(docs, vectorizer) ==
    Components(vectorizer, [i \in DOMAIN docs |-> Row(docs[i], vectorizer)])

\* a corpus with no token that is not a stop word: ValueError
FitVocabulary(docs, vocab) ==
    IF vocab = {} THEN EmptyVocabulary
    ELSE TransformAll(docs, Fitted(docs, vocab))

FitAnalyzed(docs) ==
    FitVocabulary(docs, UNION {Range(docs[i]) : i \in DOMAIN docs})

\* vectorizer.fit_transform(corpus)
FitTransform(corpus) == FitAnalyzed([i \in DOMAIN corpus |-> Analyze(corpus[i])])

\* the components without the test for an empty list
get_ai_components_unguarded(events_list) ==
    FitTransform(Corpus(events_list))

\* get_ai_components(events_list), app.py:43-56
get_ai_components(events_list) ==
    IF events_list = <<>> THEN Components(None, NoMatrix)
    ELSE FitTransform(Corpus(events_list))

\* vectorizer.transform([text]): terms outside the vocabulary are dropped
Transform(vectorizer, text) == Row(Analyze(text), vectorizer)

RECURSIVE SumOver(_, _)
SumOver(f, S) ==
    IF S = {} THEN 0
    ELSE f[CHOOSE t \in S : TRUE] + SumOver(f, S \ {CHOOSE t \in S : TRUE})

Dot(u, v) == SumOver([t \in DOMAIN u |-> u[t] * v[t]], DOMAIN u)

(* A similarity score is the square of the cosine, kept as the fraction    *)
(* <<numerator, denominator>>; the cosine of vectors with no negative      *)
(* entry is never negative, so the squares order as the cosines do.  A     *)
(* vector of norm zero has similarity 0 to everything.                     *)
Fraction(uv, uu, vv) == IF uu * vv = 0 THEN <<0, 1>> ELSE <<uv * uv, uu * vv>>

Cosine(u, v) == Fraction(Dot(u, v), Dot(u, u), Dot(v, v))

\* cosine_similarity(user_tfidf, tfidf_matrix).flatten()
cosine_similarity(user_tfidf, tfidf_matrix) ==
    [i \in DOMAIN tfidf_matrix |-> Cosine(user_tfidf, tfidf_matrix[i])]

RECURSIVE FracLess(_, _, _, _)
\* a/b < c/d for a, c >= 0 and b, d > 0, by continued fractions
FracLess(a, b, c, d) ==
    IF a \div b # c \div d THEN a \div b < c \div d
    ELSE IF c % d = 0 THEN FALSE
    ELSE IF a % b = 0 THEN TRUE
    ELSE FracLess(d, c % d, b, a % b)

ScoreLess(s1, s2) == FracLess(s1[1], s1[2], s2[1], s2[2])
\* score > 0.0
Positive(s) == s[1] > 0

----------------------------------------------------------------------------
(* The file: exists says whether os.path.exists(EVENT_FILE), text is its   *)
(* content.                                                                *)
NoFile == [exists |-> FALSE, text |-> <<>>]
FileOf(text) == [exists |-> TRUE, text |-> text]

\* the except clause of app.py:34-35
OrEmpty(r) == IF r.ok THEN r.val ELSE <<>>

\* load_events(), app.py:28-36
load_events(f) == IF f.exists THEN OrEmpty(JsonLoad(f.text)) ELSE <<>>

\* save_events(events_list), app.py:38-41: the file after the write
save_events(events_list) == FileOf(JsonDump(events_list))

----------------------------------------------------------------------------
(* What a view function hands back: the event list and the file as it      *)
(* leaves them, the session's logged_in, and the HTTP response.            *)

\* flash(message, category) is <<message, category>>; the message of an
\* f-string is its text as written, the fields in braces not filled in
NoFlash == <<>>

\* redirect(url_for(location)), after an optional flash(message, category)
Redirect(events, f, logged_in, location, flash) ==
    [events |-> events, file |-> f, logged_in |-> logged_in, status |-> 302,
     location |-> location, flash |-> flash, body |-> <<>>]

\* render_template(template, ...) or jsonify(...)
Render(events, f, logged_in, template, body) ==
    [events |-> events, file |-> f, logged_in |-> logged_in, status |-> 200,
     location |-> template, flash |-> NoFlash, body |-> body]

\* an exception no handler catches: Flask answers 500
Unhandled(events, f, logged_in, exception) ==
    [events |-> events, file |-> f, logged_in |-> logged_in, status |-> 500,
     location |-> exception, flash |-> NoFlash, body |-> <<>>]

----------------------------------------------------------------------------
(* The chatbot, app.py:60-73 *)

\* the keywords of the four tests, app.py:64, 66, 68 and 70
AdminWords == {<<"a","d","m","i","n">>, <<"l","o","g","i","n">>, <<"c","r","e","d","e","n","t","i","a","l","s">>}
UpcomingWords == {<<"u","p","c","o","m","i","n","g">>, <<"n","e","x","t"," ","7"," ","d","a","y","s">>, <<"f","i","l","t","e","r">>}
SearchWords == {<<"r","e","c","o","m","m","e","n","d","a","t","i","o","n">>, <<"s","e","a","r","c","h">>, <<"e","v","e","n","t">>, <<"i","n","t","e","r","e","s","t","e","d">>}
HelloWords == {<<"h","e","l","l","o">>, <<"h","i">>, <<"h","e","y">>}

CredentialsReply ==
    <<"T","h","e"," ","a","d","m","i","n"," ","u","s","e","r","n","a","m","e"," ","i","s"," ","'">> \o ADMIN_USER
        \o <<"'"," ","a","n","d"," ","t","h","e"," ","p","a","s","s","w","o","r","d"," ","i","s"," ","'">> \o ADMIN_PASS \o <<"'",".">>
UpcomingReply == <<"T","h","e"," ","h","o","m","e","p","a","g","e"," ","a","u","t","o","m","a","t","i","c","a","l","l","y"," ","f","i","l","t","e","r","s"," ","e","v","e","n","t","s"," ","f","o","r"," ","t","h","e"," ","n","e","x","t"," ","7"," ","d","a","y","s"," ","i","n"," ","t","h","e"," ","'","U","p","c","o","m","i","n","g"," ","E","v","e","n","t","s","'"," ","s","e","c","t","i","o","n",".">>
SearchReply == <<"T","o"," ","g","e","t"," ","p","e","r","s","o","n","a","l","i","z","e","d"," ","r","e","c","o","m","m","e","n","d","a","t","i","o","n","s",","," ","p","l","e","a","s","e"," ","u","s","e"," ","t","h","e"," ","s","e","a","r","c","h"," ","b","a","r"," ","a","t"," ","t","h","e"," ","t","o","p","!"," ","I"," ","u","s","e"," ","A","I"," ","(","T","F","-","I","D","F",")"," ","f","o","r"," ","m","a","t","c","h","i","n","g",".">>
HelloReply == <<"H","e","l","l","o","!"," ","I","'","m"," ","y","o","u","r"," ","C","o","l","l","e","g","e"," ","E","v","e","n","t"," ","A","s","s","i","s","t","a","n","t","."," ","H","o","w"," ","c","a","n"," ","I"," ","h","e","l","p"," ","y","o","u"," ","f","i","n","d"," ","a","n"," ","e","v","e","n","t","?">>
FallbackReply == <<"I","'","m"," ","a","n"," ","A","I"," ","a","s","s","i","s","t","a","n","t","."," ","I"," ","c","a","n"," ","h","e","l","p"," ","w","i","t","h"," ","e","v","e","n","t"," ","s","e","a","r","c","h",","," ","a","d","m","i","n"," ","a","c","c","e","s","s",","," ","o","r"," ","t","h","e"," ","7","-","d","a","y"," ","f","i","l","t","e","r",".">>
NoMessageReply == <<"I"," ","d","i","d","n","'","t"," ","r","e","c","e","i","v","e"," ","y","o","u","r"," ","m","e","s","s","a","g","e","."," ","P","l","e","a","s","e"," ","t","r","y"," ","a","g","a","i","n","!">>

\* 'w1' in message or 'w2' in message or ...
AnyIn(words, message) == \E w \in words : In(w, message)

\* the chain of tests with the second and the third in the other order
FirstMatchSearchFirst(m) ==
    IF AnyIn(AdminWords, m) THEN CredentialsReply
    ELSE IF AnyIn(SearchWords, m) THEN SearchReply
    ELSE IF AnyIn(UpcomingWords, m) THEN UpcomingReply
    ELSE IF AnyIn(HelloWords, m) THEN HelloReply
    ELSE FallbackReply

\* the if/elif chain of app.py:64-73 on the lower-cased message
FirstMatch(m) ==
    IF AnyIn(AdminWords, m) THEN CredentialsReply
    ELSE IF AnyIn(UpcomingWords, m) THEN UpcomingReply
    ELSE IF AnyIn(SearchWords, m) THEN SearchReply
    ELSE IF AnyIn(HelloWords, m) THEN HelloReply
    ELSE FallbackReply

\* the tests made on the message as it came, capitals and all
get_chatbot_response_cased(message) == FirstMatch(message)

\* get_chatbot_response(message), app.py:60-73
get_chatbot_response(message) == FirstMatch(Lower(message))

\* chatbot_talk(), app.py:152-163: the 'response' of the JSON body
chatbot_talk(user_message) ==
    IF user_message = <<>> THEN NoMessageReply
    ELSE get_chatbot_response(user_message)

----------------------------------------------------------------------------
(* home(), app.py:119-141 *)

\* the test with the window's last day left out
InWindowStrict(parsed, today, seven_days_from_now) ==
    /\ parsed.ok
    /\ DateLeq(today, parsed.date)
    /\ DateLeq(parsed.date, seven_days_from_now)
    /\ parsed.date # seven_days_from_now

\* event_date >= today and event_date <= seven_days_from_now, for the
\* result of strptime; its ValueError is caught and the event skipped
InWindow(parsed, today, seven_days_from_now) ==
    /\ parsed.ok
    /\ DateLeq(today, parsed.date)
    /\ DateLeq(parsed.date, seven_days_from_now)

Raised(partial) == [raised |-> TRUE, events |-> partial]
Returned(events) == [raised |-> FALSE, events |-> events]

RECURSIVE UpcomingLoop(_, _, _, _)
\* The loop of app.py:127-134.  e['date'] of an event with no 'date' is a
\* KeyError, which the except ValueError clause does not catch: raised.
UpcomingLoop(events, today, seven_days_from_now, upcoming) ==
    IF events = <<>> THEN Returned(upcoming)
    ELSE IF ~DictHas(Head(events), Key.date) THEN Raised(upcoming)
    ELSE IF InWindow(strptime(DictGet(Head(events), Key.date)), today,
                     seven_days_from_now)
    THEN UpcomingLoop(Tail(events), today, seven_days_from_now,
                      Append(upcoming, Head(events)))
    ELSE UpcomingLoop(Tail(events), today, seven_days_from_now, upcoming)

\* app.py:122-134: the upcoming events, or raised
Upcoming(events, today) == UpcomingLoop(events, today, AddDays(today, 7), <<>>)

HomeResult(events, f, logged_in, r) ==
    IF r.raised THEN Unhandled(events, f, logged_in, "KeyError")
    ELSE Render(events, f, logged_in, "index.html",
                [events |-> r.events, all_events |-> events])

home(events, f, logged_in, today) ==
    HomeResult(events, f, logged_in, Upcoming(events, today))

----------------------------------------------------------------------------
(* recommend_events_simple, app.py:77-102, and recommend(), app.py:143-150 *)

Orderings(S) ==
    {p \in [1..Cardinality(S) -> S] : \A i, j \in DOMAIN p : i # j => p[i] # p[j]}

\* cosine_sim.argsort(): the indices in an order of non-decreasing score.
\* numpy's default sort is not stable, so equal scores may come in any order.
Argsort(cosine_sim) ==
    {p \in Orderings(DOMAIN cosine_sim) :
        \A i, j \in DOMAIN p :
            i < j => ~ScoreLess(cosine_sim[p[j]], cosine_sim[p[i]])}

\* a[::-1]
Reversed(a) == [i \in DOMAIN a |-> a[Len(a) + 1 - i]]

RECURSIVE CollectPadded(_, _, _, _)
\* The loop without the test for a positive score
CollectPadded(top_indices, cosine_sim, top_n, picked) ==
    IF top_indices = <<>> THEN picked
    ELSE IF Len(picked) < top_n
         THEN CollectPadded(Tail(top_indices), cosine_sim, top_n,
                            Append(picked, Head(top_indices)))
         ELSE picked

RECURSIVE Collect(_, _, _, _)
\* The loop of app.py:96-100; picked holds the indices appended so far
Collect(top_indices, cosine_sim, top_n, picked) ==
    IF top_indices = <<>> THEN picked
    ELSE IF Positive(cosine_sim[Head(top_indices)]) /\ Len(picked) < top_n
         THEN Collect(Tail(top_indices), cosine_sim, top_n,
                      Append(picked, Head(top_indices)))
         ELSE IF Len(picked) >= top_n THEN picked
         ELSE Collect(Tail(top_indices), cosine_sim, top_n, picked)

(* An outcome of recommend_events_simple: raised is the ValueError of      *)
(* get_ai_components; picked are the positions (from 1) in events_list of  *)
(* the recommended events, scores the similarity of every event.           *)
Recommended(events_list, picked, cosine_sim) ==
    [raised |-> FALSE, picked |-> picked, scores |-> cosine_sim,
     events |-> [k \in DOMAIN picked |-> events_list[picked[k]]]]
NoneRecommended ==
    [raised |-> FALSE, picked |-> <<>>, scores |-> <<>>, events |-> <<>>]
RecommendRaised ==
    [raised |-> TRUE, picked |-> <<>>, scores |-> <<>>, events |-> <<>>]

\* app.py:90-102, for each order argsort may return
TopEvents(events_list, cosine_sim, top_n) ==
    {Recommended(events_list, Collect(Reversed(p), cosine_sim, top_n, <<>>),
                 cosine_sim) : p \in Argsort(cosine_sim)}

\* app.py:81-88, with the components get_ai_components returned
Rank(user_interest, events_list, top_n, ai) ==
    IF ai.raised THEN {RecommendRaised}
    ELSE IF ~ai.vectorizer.fitted THEN {NoneRecommended}
    ELSE TopEvents(events_list,
                   cosine_similarity(Transform(ai.vectorizer, user_interest),
                                     ai.matrix),
                   top_n)

\* The outcomes of recommend_events_simple(user_interest, events_list,
\* top_n), one for each order argsort may return
recommend_events_simple(user_interest, events_list, top_n) ==
    Rank(user_interest, events_list, top_n, get_ai_components(events_list))

RecommendResult(events, f, logged_in, user_interest, r) ==
    IF r.raised THEN Unhandled(events, f, logged_in, "ValueError")
    ELSE Render(events, f, logged_in, "recommend.html",
                [recommended |-> r.events, interest |-> user_interest,
                 picked |-> r.picked, scores |-> r.scores])

\* recommend(): the responses the request may get
recommend(events, f, logged_in, user_interest) ==
    {RecommendResult(events, f, logged_in, user_interest, r)
     : r \in recommend_events_simple(user_interest, events, 5)}

----------------------------------------------------------------------------
(* login(), logout(), admin_dashboard(), app.py:167-196 *)

\* login that tests the user name only
login_by_name(events, f, logged_in, method, form) ==
    IF method = "POST"
    THEN IF DictGet(form, Key.username) = ADMIN_USER
         THEN Redirect(events, f, TRUE, "admin_dashboard",
                       <<"Logged in successfully!", "success">>)
         ELSE Redirect(events, f, logged_in, "login",
                       <<"Invalid credentials.", "danger">>)
    ELSE Render(events, f, logged_in, "login.html", <<>>)

login(events, f, logged_in, method, form) ==
    IF method = "POST"
    THEN IF /\ DictGet(form, Key.username) = ADMIN_USER
            /\ DictGet(form, Key.password) = ADMIN_PASS
         THEN Redirect(events, f, TRUE, "admin_dashboard",
                       <<"Logged in successfully!", "success">>)
         ELSE Redirect(events, f, logged_in, "login",
                       <<"Invalid credentials.", "danger">>)
    ELSE Render(events, f, logged_in, "login.html", <<>>)

logout(events, f, logged_in) ==
    Redirect(events, f, FALSE, "home", <<"You have been logged out.", "info">>)

\* a dashboard that writes the list it shows
admin_dashboard_saving(events, f, logged_in) ==
    IF ~logged_in
    THEN Redirect(events, f, logged_in, "login",
                  <<"Please log in first.", "warning">>)
    ELSE Render(events, save_events(events), logged_in,
                "admin_dashboard.html", [events |-> events])

admin_dashboard(events, f, logged_in) ==
    IF ~logged_in
    THEN Redirect(events, f, logged_in, "login",
                  <<"Please log in first.", "warning">>)
    ELSE Render(events, f, logged_in, "admin_dashboard.html",
                [events |-> events])

----------------------------------------------------------------------------
(* add_event(), edit_event(index), delete_event(index), app.py:198-274 *)

\* app.py:203, and the order of the assignments of app.py:238-242
required_fields == <<Key.title, Key.description, Key.date, Key.venue, Key.url>>

\* any(not request.form.get(field) for field in required_fields)
AnyMissing(form) ==
    \E i \in DOMAIN required_fields :
        DictGetOr(form, required_fields[i], <<>>) = <<>>

\* the dict of app.py:208-214
NewEvent(form) ==
    [i \in DOMAIN required_fields |->
        <<required_fields[i], DictGet(form, required_fields[i])>>]

\* save_events(GLOBAL_EVENTS), flash(message, "success") and the redirect to
\* the dashboard that end each mutation: the list is written as it then is
SaveAndRedirect(events, logged_in, message) ==
    Redirect(events, save_events(events), logged_in, "admin_dashboard",
             <<message, "success">>)

\* the redirect without the save
RedirectUnsaved(events, f, logged_in, message) ==
    Redirect(events, f, logged_in, "admin_dashboard", <<message, "success">>)

\* add_event that does not save
add_event_unsaved(events, f, logged_in, form) ==
    IF ~logged_in THEN Redirect(events, f, logged_in, "login", NoFlash)
    ELSE IF AnyMissing(form)
    THEN Redirect(events, f, logged_in, "admin_dashboard",
                  <<"All fields are required.", "danger">>)
    ELSE RedirectUnsaved(Append(events, NewEvent(form)), f, logged_in,
                         "Event '{new_event['title']}' added successfully!")

add_event(events, f, logged_in, form) ==
    IF ~logged_in THEN Redirect(events, f, logged_in, "login", NoFlash)
    ELSE IF AnyMissing(form)
    THEN Redirect(events, f, logged_in, "admin_dashboard",
                  <<"All fields are required.", "danger">>)
    ELSE SaveAndRedirect(Append(events, NewEvent(form)), logged_in,
                         "Event '{new_event['title']}' added successfully!")

RECURSIVE Assign(_, _, _)
\* event[k] = request.form[k] for the keys in turn; a key the form lacks is
\* a KeyError, and the assignments made before it stay made
Assign(event, form, keys) ==
    IF keys = <<>> THEN [raised |-> FALSE, event |-> event]
    ELSE IF ~DictHas(form, Head(keys)) THEN [raised |-> TRUE, event |-> event]
    ELSE Assign(DictSet(event, Head(keys), DictGet(form, Head(keys))),
                form, Tail(keys))

\* the same with a save after a KeyError too
EditedAndSaved(events, f, logged_in, index, a) ==
    IF a.raised
    THEN Redirect([events EXCEPT ![index + 1] = a.event],
                  save_events([events EXCEPT ![index + 1] = a.event]),
                  logged_in, "edit_event",
                  <<"Missing form field: {e}. Please check your HTML form names.",
                    "danger">>)
    ELSE SaveAndRedirect([events EXCEPT ![index + 1] = a.event], logged_in,
                         "Event '{event_to_edit['title']}' updated successfully!")

\* app.py:236-252 with the event the assignments left: saved and reported,
\* or, after a KeyError, reported missing with the list as it then is
Edited(events, f, logged_in, index, a) ==
    IF a.raised
    THEN Redirect([events EXCEPT ![index + 1] = a.event], f, logged_in,
                  "edit_event",
                  <<"Missing form field: {e}. Please check your HTML form names.",
                    "danger">>)
    ELSE SaveAndRedirect([events EXCEPT ![index + 1] = a.event], logged_in,
                         "Event '{event_to_edit['title']}' updated successfully!")

\* edit_event that does not assign the url
edit_event_no_url(events, f, logged_in, index, method, form) ==
    IF ~logged_in THEN Redirect(events, f, logged_in, "login", NoFlash)
    ELSE IF ~(0 <= index /\ index < Len(events))
    THEN Redirect(events, f, logged_in, "admin_dashboard",
                  <<"Event not found.", "danger">>)
    ELSE IF method = "POST"
    THEN Edited(events, f, logged_in, index,
                Assign(events[index + 1], form, SubSeq(required_fields, 1, 4)))
    ELSE Render(events, f, logged_in, "edit_event.html",
                [event |-> events[index + 1], index |-> index])

edit_event(events, f, logged_in, index, method, form) ==
    IF ~logged_in THEN Redirect(events, f, logged_in, "login", NoFlash)
    ELSE IF ~(0 <= index /\ index < Len(events))
    THEN Redirect(events, f, logged_in, "admin_dashboard",
                  <<"Event not found.", "danger">>)
    ELSE IF method = "POST"
    THEN Edited(events, f, logged_in, index,
                Assign(events[index + 1], form, required_fields))
    ELSE Render(events, f, logged_in, "edit_event.html",
                [event |-> events[index + 1], index |-> index])

\* del l[index], index counted from 0
DelAt(l, index) == SubSeq(l, 1, index) \o SubSeq(l, index + 2, Len(l))

\* delete_event that removes the last event whatever the index
delete_event_last(events, f, logged_in, index) ==
    IF ~logged_in THEN Redirect(events, f, logged_in, "login", NoFlash)
    ELSE IF 0 <= index /\ index < Len(events)
    THEN SaveAndRedirect(SubSeq(events, 1, Len(events) - 1), logged_in,
                         "Event deleted successfully!")
    ELSE Redirect(events, f, logged_in, "admin_dashboard",
                  <<"Event not found.", "danger">>)

delete_event(events, f, logged_in, index) ==
    IF ~logged_in THEN Redirect(events, f, logged_in, "login", NoFlash)
    ELSE IF 0 <= index /\ index < Len(events)
    THEN SaveAndRedirect(DelAt(events, index), logged_in,
                         "Event deleted successfully!")
    ELSE Redirect(events, f, logged_in, "admin_dashboard",
                  <<"Event not found.", "danger">>)

----------------------------------------------------------------------------
(* check_initialization(), app.py:106-112, which Flask runs before every   *)
(* view function.  GLOBAL_EVENTS is rebound first; when get_ai_components  *)
(* then raises, the request ends there with a 500.                         *)

Initialized(events, ai) ==
    [events |-> events, raised |-> ai.raised, vectorizer |-> ai.vectorizer,
     matrix |-> ai.matrix]

\* the hook without its first statement: the list stays what it was
NotReloaded(f) == GLOBAL_EVENTS
\* the events the hook's first statement binds GLOBAL_EVENTS to
Reloaded(f) == load_events(f)

Reinitialize(events) == Initialized(events, get_ai_components(events))

check_initialization(f) == Reinitialize(Reloaded(f))

----------------------------------------------------------------------------
(* Bounds and the inputs of the requests *)

\* add_event is not taken once the list holds this many events
MaxEvents == 2

Dict5(title, description, date, venue, url) ==
    <<<<Key.title, title>>, <<Key.description, description>>,
      <<Key.date, date>>, <<Key.venue, venue>>, <<Key.url, url>>>>

\* Complete forms; the titles of the first two differ in letter case only
FormLab  == Dict5(<<"A","I"," ","L","a","b">>, <<"a","i"," ","t","a","l","k">>, <<"2","0","2","5","-","0","1","-","1","0">>, <<"H","a","l","l">>, <<"u","1">>)
FormLab2 == Dict5(<<"a","i"," ","l","a","b">>, <<"a","r","t"," ","o","f"," ","a","i">>, <<"2","0","2","5","-","0","1","-","1","2">>, <<"G","y","m">>, <<"u","2">>)
\* A form whose description is empty
FormEmpty == Dict5(<<"A","I"," ","L","a","b">>, <<>>, <<"2","0","2","5","-","0","1","-","1","0">>, <<"H","a","l","l">>, <<"u","1">>)
\* A form with no date, venue and url fields
FormShort == <<<<Key.title, <<"A","r","t"," ","F","a","i","r">>>>, <<Key.description, <<"a","r","t"," ","s","h","o","w">>>>>>

Forms == {FormLab, FormLab2, FormEmpty, FormShort}

Login(username, password) ==
    <<<<Key.username, username>>, <<Key.password, password>>>>
NoForm == <<>>
LoginForms == {Login(ADMIN_USER, ADMIN_PASS), Login(ADMIN_USER, <<"p","a","s","s","w","o","r","d">>),
               Login(<<"A","d","m","i","n">>, ADMIN_PASS)}

\* Records a file may hold that no form of the application wrote: the
\* fields in another order with one more, no date, and stop words only
RecordFair ==
    <<<<Key.date, <<"2","0","2","5","-","0","1","-","1","5">>>>, <<Key.title, <<"A","r","t"," ","F","a","i","r">>>>,
      <<<<"c","a","t","e","g","o","r","y">>, <<"A","r","t","s">>>>, <<Key.venue, <<"t","h","e"," ","h","a","l","l">>>>,
      <<Key.description, <<"a","r","t"," ","s","h","o","w">>>>, <<Key.url, <<"u","0">>>>>>
RecordChess ==
    <<<<Key.title, <<"C","h","e","s","s">>>>, <<Key.description, <<"c","h","e","s","s"," ","c","l","u","b">>>>>>
RecordStop == Dict5(<<"T","h","e">>, <<"o","f">>, <<"2","0","2","5","-","0","1","-","1","0">>, <<"a">>, <<"u">>)

\* A file cut short in the middle of a write
Truncated == FileOf(<<Punct("["), Punct("{"), Str(Key.title), Punct(":")>>)

\* an empty file, a list with text after it, a string with the escape \q
EmptyText == FileOf(<<>>)
Trailing == FileOf(JsonDump(<<RecordFair>>) \o <<Punct("]")>>)
BadEscape ==
    FileOf(<<Punct("["), Punct("{"), Str(Key.title), Punct(":"),
             Str(<<"\\", "q">>), Punct("}"), Punct("]")>>)
Unparsable == {Truncated, EmptyText, Trailing, BadEscape}

InitialFiles ==
    {NoFile, save_events(<<>>), save_events(<<RecordFair>>),
     save_events(<<RecordChess>>), save_events(<<RecordStop>>)}
        \cup Unparsable

\* the browsers that hold a session cookie, and the one that asks in Spec
Sessions == {"c1", "c2"}
Clients == {"c1"}
Todays == {<<2025, 1, 9>>}
Interests == {<<"A","I">>}
Chats == {<<"H","i">>}

----------------------------------------------------------------------------
(* The state machine: one action per route, each the before-request hook   *)
(* followed by the view function, as one request served start to end.      *)

NoResponse ==
    [route |-> "none", client |-> "none", input |-> <<>>, status |-> 0,
     location |-> "", flash |-> NoFlash, body |-> <<>>]

\* The threads of the server (app.run serves each request in a thread of its
\* own); a thread that serves no request is Idle.  logged_in is the flag of
\* the session cookie the request came with; at is the place in
\* GLOBAL_EVENTS of the dict event_to_edit refers to, 0 when the list
\* GLOBAL_EVENTS now names does not hold it; alone is a ghost, true while no
\* other thread has taken a step since this request began.
Threads == {"t1", "t2"}
Idle ==
    [pc |-> "idle", route |-> "none", client |-> "none", input |-> <<>>,
     logged_in |-> FALSE, at |-> 0, event |-> <<>>, alone |-> TRUE]
NoThreads == [t \in Threads |-> Idle]

\* The module's globals as app.py:115-117 sets them (the module imported
\* by a server), or as the __main__ block, app.py:280-281, leaves them
\* (python app.py, which does not start if get_ai_components raises)
InitWith(files) ==
    /\ file \in files
    /\ \E main \in BOOLEAN, init \in {Reinitialize(load_events(file))} :
         /\ main => ~init.raised
         /\ GLOBAL_EVENTS = IF main THEN init.events ELSE <<>>
         /\ GLOBAL_VECTORIZER = IF main THEN init.vectorizer ELSE None
         /\ GLOBAL_MATRIX = IF main THEN init.matrix ELSE NoMatrix
    /\ session = [c \in Sessions |-> FALSE]
    /\ threads = NoThreads
    /\ response = NoResponse
    /\ history = [list |-> load_events(file), mutated |-> FALSE,
                  before |-> load_events(file), file |-> file,
                  logged_in |-> FALSE, sessions |-> session]

Succeeded(out) == out.flash # NoFlash /\ out.flash[2] = "success"
Mutating == {"add_event", "edit_event", "delete_event"}

(* A request of client c: init is what the hook did, out what the view     *)
(* function hands back, applied the mutation's effect on the ghost list.   *)
(* When the hook raised, the view function does not run.  history is a     *)
(* ghost: list is what the successful mutations so far make of the list    *)
(* first loaded; before, file and logged_in are the list the hook loaded,  *)
(* the file and the session's logged_in as the last request found them,    *)
(* sessions the logged_in of every session then.                           *)
Serve(c, route, input, init, out, applied) ==
    IF init.raised
    THEN /\ GLOBAL_EVENTS' = init.events
         /\ response' = [route |-> route, client |-> c, input |-> input,
                         status |-> 500, location |-> "ValueError",
                         flash |-> NoFlash, body |-> <<>>]
         /\ history' = [history EXCEPT !.before = init.events, !.file = file,
                                       !.logged_in = session[c],
                                       !.sessions = session]
         /\ UNCHANGED <<file, GLOBAL_VECTORIZER, GLOBAL_MATRIX, session,
                        threads>>
    ELSE /\ GLOBAL_EVENTS' = out.events
         /\ UNCHANGED threads
         /\ GLOBAL_VECTORIZER' = init.vectorizer
         /\ GLOBAL_MATRIX' = init.matrix
         /\ file' = out.file
         /\ session' = [session EXCEPT ![c] = out.logged_in]
         /\ response' = [route |-> route, client |-> c, input |-> input,
                         status |-> out.status, location |-> out.location,
                         flash |-> out.flash, body |-> out.body]
         /\ history' = [list |-> IF Succeeded(out) /\ route \in Mutating
                                  THEN applied ELSE history.list,
                        mutated |-> \/ history.mutated
                                    \/ Succeeded(out) /\ route \in Mutating,
                        before |-> init.events, file |-> file,
                        logged_in |-> session[c], sessions |-> session]

(* The ghost list: what each mutation is to do to the list of events,      *)
(* stated on its own terms.                                                *)
AppliedAdd(l, form) ==
    Append(l, Dict5(DictGet(form, Key.title), DictGet(form, Key.description),
                    DictGet(form, Key.date), DictGet(form, Key.venue),
                    DictGet(form, Key.url)))
IsField(item) == \E i \in DOMAIN required_fields : required_fields[i] = item[1]
IsNoField(item) == ~IsField(item)
AppliedEdit(l, index, form) ==
    [k \in DOMAIN l |->
        IF k # index + 1 THEN l[k]
        ELSE SelectSeq(l[k], IsNoField) \o SelectSeq(form, IsField)]
AppliedDelete(l, index) ==
    [k \in 1..(Len(l) - 1) |-> IF k <= index THEN l[k] ELSE l[k + 1]]

Home(clients, todays) ==
    \E init \in {check_initialization(file)}, c \in clients, today \in todays :
        Serve(c, "home", [today |-> today], init,
              home(init.events, file, session[c], today), history.list)

Recommend(clients, interests) ==
    \E init \in {check_initialization(file)}, c \in clients,
       interest \in interests :
        \E out \in IF init.raised THEN {NoResponse}
                   ELSE recommend(init.events, file, session[c], interest) :
            Serve(c, "recommend",
                  [interest |-> interest, corpus |-> init.events,
                   stale |-> ~ListEq(GLOBAL_EVENTS, init.events)],
                  init, out, history.list)

ChatbotTalk(clients, messages) ==
    \E init \in {check_initialization(file)}, c \in clients,
       message \in messages :
        Serve(c, "chatbot_talk", [message |-> message], init,
              Render(init.events, file, session[c], "json",
                     chatbot_talk(message)),
              history.list)

LoginRequest(clients, forms) ==
    \E init \in {check_initialization(file)}, c \in clients :
        \/ Serve(c, "login", [method |-> "GET", form |-> NoForm], init,
                 login(init.events, file, session[c], "GET", NoForm),
                 history.list)
        \/ \E form \in forms :
             Serve(c, "login", [method |-> "POST", form |-> form], init,
                   login(init.events, file, session[c], "POST", form),
                   history.list)

Logout(clients) ==
    \E init \in {check_initialization(file)}, c \in clients :
        Serve(c, "logout", <<>>, init, logout(init.events, file, session[c]),
              history.list)

AdminDashboard(clients) ==
    \E init \in {check_initialization(file)}, c \in clients :
        Serve(c, "admin_dashboard", <<>>, init,
              admin_dashboard(init.events, file, session[c]), history.list)

AddEvent(clients, forms) ==
    \E init \in {check_initialization(file)}, c \in clients, form \in forms :
        /\ Len(init.events) < MaxEvents
        /\ Serve(c, "add_event", [form |-> form], init,
                 add_event(init.events, file, session[c], form),
                 AppliedAdd(history.list, form))

EditEvent(clients, forms) ==
    \E init \in {check_initialization(file)}, c \in clients,
       index \in 0..MaxEvents :
        \/ Serve(c, "edit_event",
                 [index |-> index, method |-> "GET", form |-> NoForm], init,
                 edit_event(init.events, file, session[c], index, "GET",
                            NoForm),
                 history.list)
        \/ \E form \in forms :
             Serve(c, "edit_event",
                   [index |-> index, method |-> "POST", form |-> form], init,
                   edit_event(init.events, file, session[c], index, "POST",
                              form),
                   AppliedEdit(history.list, index, form))

DeleteEvent(clients) ==
    \E init \in {check_initialization(file)}, c \in clients,
       index \in 0..MaxEvents :
        Serve(c, "delete_event", [index |-> index], init,
              delete_event(init.events, file, session[c], index),
              AppliedDelete(history.list, index))

Init == InitWith(InitialFiles)

Next ==
    \/ Home(Clients, Todays)
    \/ Recommend(Clients, Interests)
    \/ ChatbotTalk(Clients, Chats)
    \/ LoginRequest(Clients, LoginForms)
    \/ Logout(Clients)
    \/ AdminDashboard(Clients)
    \/ AddEvent(Clients, Forms)
    \/ EditEvent(Clients, Forms)
    \/ DeleteEvent(Clients)

Spec == Init /\ [][Next]_vars


----------------------------------------------------------------------------
(* Properties of the store under Spec.  The last request is read off       *)
(* response and history: its route and input, the list, file and session   *)
(* it started from, and what it left.                                      *)

\* the view function of the last request ran (the hook did not raise)
Handled(route) == response.route = route /\ response.status # 500

Flashed(message) == response.flash # NoFlash /\ response.flash[1] = message

\* the title of form is, ignoring case, the title of an event of l
DuplicateTitle(l, form) ==
    \E i \in DOMAIN l :
        /\ DictHas(l[i], Key.title)
        /\ Lower(DictGet(l[i], Key.title)) = Lower(DictGet(form, Key.title))

\* an add request by a logged-in session whose form has every field
CompleteAdd ==
    /\ Handled("add_event")
    /\ history.logged_in
    /\ ~AnyMissing(response.input.form)

(* C1: an add whose title equals, ignoring letter case, the title of an    *)
(* event already in the list is a silent no-op: the list and the file hold *)
(* as many events after it as before, and the existing events are as they  *)
(* were.                                                                   *)
C1_DuplicateAddIsNoOp ==
    (CompleteAdd /\ DuplicateTitle(history.before, response.input.form))
        => /\ Len(GLOBAL_EVENTS) = Len(history.before)
           /\ Len(load_events(file)) = Len(load_events(history.file))
           /\ GLOBAL_EVENTS = history.before

(* C2: a delete request of a logged-in session with an index inside the    *)
(* list removes exactly the event at that index: the list is one shorter,  *)
(* the events before the index are as they were and the events after it    *)
(* have moved down one place; with an index outside the list the request   *)
(* reports "Event not found." and leaves the list and the file unchanged.  *)
C2_DeleteByIndex ==
    (Handled("delete_event") /\ history.logged_in)
        => IF response.input.index < Len(history.before)
           THEN /\ Len(GLOBAL_EVENTS) = Len(history.before) - 1
                /\ \A k \in DOMAIN GLOBAL_EVENTS :
                      GLOBAL_EVENTS[k] =
                          IF k <= response.input.index THEN history.before[k]
                          ELSE history.before[k + 1]
                /\ load_events(file) = GLOBAL_EVENTS
           ELSE /\ Flashed("Event not found.")
                /\ GLOBAL_EVENTS = history.before
                /\ file = history.file

\* the first of two different events was deleted
C2_Reached ==
    /\ Handled("delete_event")
    /\ history.logged_in
    /\ response.input.index = 0
    /\ Len(history.before) = 2
    /\ history.before[1] # history.before[2]
    /\ Succeeded(response)

\* a POST to edit_event by a logged-in session whose form has all five fields
CompleteEdit ==
    /\ Handled("edit_event")
    /\ history.logged_in
    /\ response.input.method = "POST"
    /\ \A i \in DOMAIN required_fields :
          DictHas(response.input.form, required_fields[i])

(* C3: a complete edit submission of a logged-in session with an index     *)
(* inside the list overwrites the five fields of the event at that index   *)
(* with the form's, leaves the length of the list and every other event    *)
(* unchanged and writes the whole list to the file; with an index outside  *)
(* the list it reports "Event not found." and leaves the list and the file *)
(* unchanged.                                                              *)
C3_UpdateByIndex ==
    CompleteEdit
        => IF response.input.index < Len(history.before)
           THEN /\ Len(GLOBAL_EVENTS) = Len(history.before)
                /\ \A i \in DOMAIN required_fields :
                      DictGetOr(GLOBAL_EVENTS[response.input.index + 1],
                                required_fields[i], <<"?">>)
                          = DictGet(response.input.form, required_fields[i])
                /\ \A k \in DOMAIN GLOBAL_EVENTS :
                      k # response.input.index + 1
                          => GLOBAL_EVENTS[k] = history.before[k]
                /\ load_events(file) = GLOBAL_EVENTS
           ELSE /\ Flashed("Event not found.")
                /\ GLOBAL_EVENTS = history.before
                /\ file = history.file

\* the second of two events was edited, and the edit changed it
C3_Reached ==
    /\ CompleteEdit
    /\ response.input.index = 1
    /\ Len(history.before) = 2
    /\ GLOBAL_EVENTS[2] # history.before[2]
    /\ Succeeded(response)

(* C4: every add, edit or delete request that reports success has written  *)
(* the whole list: when it ends, the list the file holds is the list in    *)
(* memory; and in every state the file holds the result of applying the    *)
(* successful mutations so far, in order, to the list first loaded.        *)
C4_MutationsPersisted ==
    /\ (response.route \in Mutating /\ Succeeded(response))
           => load_events(file) = GLOBAL_EVENTS
    /\ ListEq(load_events(file), history.list)

\* a successful edit of a list of two events: at least two mutations, or one
\* on a file that held two events
C4_Reached ==
    /\ response.route = "edit_event"
    /\ Succeeded(response)
    /\ Len(GLOBAL_EVENTS) = 2
    /\ history.mutated
    /\ GLOBAL_EVENTS # history.before

(* C5: the ranking of every recommend request is computed over the list of *)
(* events as the successful add, edit and delete requests before it left   *)
(* it.                                                                     *)
C5_IndexNeverStale ==
    Handled("recommend") => ListEq(response.input.corpus, history.list)

\* a recommend request after a mutation, which found the list in memory
\* different from the file (an edit had stopped at a missing field)
C5_Reached ==
    /\ Handled("recommend")
    /\ history.mutated
    /\ response.input.stale
    /\ response.input.corpus # <<>>

C18_PartialEdit ==
    /\ Handled("edit_event")
    /\ history.logged_in
    /\ response.input.method = "POST"
    /\ response.input.index < Len(history.before)
    /\ \E i \in DOMAIN required_fields :
          ~DictHas(response.input.form, required_fields[i])

(* C18: an edit submission that lacks one of the five fields is not        *)
(* persisted, not even in part: the request leaves the file as it found    *)
(* it, reports the missing field and no success, and the file still holds  *)
(* the list the request loaded.  Every request works on the list its hook  *)
(* loaded from the file, and the pages that show events show that list, so *)
(* no later request sees the fields that were assigned in memory.          *)
C18_PartialEditNotPersisted ==
    /\ C18_PartialEdit
          => /\ file = history.file
             /\ load_events(file) = history.before
             /\ ~Succeeded(response)
             /\ Flashed("Missing form field: {e}. Please check your HTML form names.")
             /\ response.location = "edit_event"
    /\ response.route # "none"
          => history.before = load_events(history.file)
    /\ Handled("home") => response.body.all_events = history.before
    /\ (Handled("admin_dashboard") /\ history.logged_in)
          => response.body.events = history.before
    /\ Handled("recommend") => response.input.corpus = history.before

\* the form's title and description were assigned to an event in memory
\* before the missing date stopped the edit, and the file was not written
C18_Reached ==
    /\ C18_PartialEdit
    /\ response.input.form = FormShort
    /\ GLOBAL_EVENTS # history.before
    /\ DictGet(GLOBAL_EVENTS[response.input.index + 1], Key.title)
           = <<"A","r","t"," ","F","a","i","r">>
    /\ DictGet(load_events(file)[response.input.index + 1], Key.title)
           # <<"A","r","t"," ","F","a","i","r">>
    /\ file = history.file

\* the routes whose view functions write nothing
C19_ReadOnly ==
    {"home", "recommend", "chatbot_talk", "admin_dashboard", "login", "logout"}

(* C19: a home, recommend, chatbot, admin-dashboard, login or logout       *)
(* request, its hook included, leaves the file as it found it and leaves   *)
(* the list of events equal to the list the file holds; a request that     *)
(* leaves the file other than it found it is an add, an edit or a delete.  *)
C19_ReadOnlyRequests ==
    /\ response.route \in C19_ReadOnly
          => /\ file = history.file
             /\ GLOBAL_EVENTS = load_events(file)
    /\ (response.route # "none" /\ file # history.file)
          => response.route \in Mutating

\* the dashboard showed a logged-in session two events, and the list is the
\* file's
C19_Reached ==
    /\ Handled("admin_dashboard")
    /\ history.logged_in
    /\ Len(response.body.events) = 2
    /\ file = history.file
    /\ GLOBAL_EVENTS = load_events(file)


----------------------------------------------------------------------------
(* The chatbot on its own: every message made of a few fragments           *)

\* a message is made of at most this many fragments
MaxFrags == 2

\* fragments with a keyword of each group, one in capitals, one that is a
\* keyword only when joined to the next, and two with no keyword
Fragments ==
    {<<"A","d","m","i","n">>, <<"f","i","l","t","e","r">>, <<"n","e","x","t"," ","7">>, <<" ","d","a","y","s">>, <<"e","v","e","n","t">>, <<"h","i">>, <<"t">>,
     <<"x"," ">>}

\* whole messages, with every keyword in one of them
Phrases ==
    {<<"W","h","a","t"," ","a","r","e"," ","t","h","e"," ","C","r","e","d","e","n","t","i","a","l","s","?">>, <<"L","O","G","I","N"," ","p","l","e","a","s","e">>, <<"w","h","o"," ","i","s"," ","t","h","e"," ","a","d","m","i","n">>,
     <<"U","p","c","o","m","i","n","g">>, <<"w","h","a","t"," ","h","a","p","p","e","n","s"," ","i","n"," ","t","h","e"," ","n","e","x","t"," ","7"," ","d","a","y","s">>, <<"n","e","x","t"," ","7"," "," ","d","a","y","s">>,
     <<"c","a","n"," ","I"," ","f","i","l","t","e","r">>, <<"A","n","y"," ","r","e","c","o","m","m","e","n","d","a","t","i","o","n","?">>, <<"s","e","a","r","c","h"," ","f","o","r"," ","u","p","c","o","m","i","n","g"," ","e","v","e","n","t","s">>,
     <<"I"," ","a","m"," ","i","n","t","e","r","e","s","t","e","d">>, <<"I","n","t","e","r","e","s","t","e","d"," ","i","n"," ","t","h","e"," ","l","o","g","i","n"," ","e","v","e","n","t">>, <<"H","e","l","l","o"," ","t","h","e","r","e">>,
     <<"h","e","y">>, <<"t","h","i","s">>, <<"H","I">>, <<"s","a","y"," ","h","e","l","l","o"," ","t","o"," ","t","h","e"," ","a","d","m","i","n">>, <<"h","e","l","p">>,
     <<"g","o","o","d"," ","m","o","r","n","i","n","g">>, <<"h","e"," ","y">>, <<"r","e","c","o","m","m","e","n","d">>}

Messages ==
    {Concat(parts) : parts \in SeqsUpTo(Fragments, MaxFrags)} \cup Phrases

\* the chatbot reads no event; the client asks logged in and logged out
InitChat == InitWith({save_events(<<RecordFair>>)})
NextChat ==
    \/ ChatbotTalk(Clients, Messages)
    \/ LoginRequest(Clients, {Login(ADMIN_USER, ADMIN_PASS)})
    \/ Logout(Clients)
SpecChat == InitChat /\ [][NextChat]_vars

\* the keyword groups in their order of priority, each with its reply
C10_Groups ==
    <<[words |-> {<<"a","d","m","i","n">>, <<"l","o","g","i","n">>, <<"c","r","e","d","e","n","t","i","a","l","s">>},
       reply |-> CredentialsReply],
      [words |-> {<<"u","p","c","o","m","i","n","g">>, <<"n","e","x","t"," ","7"," ","d","a","y","s">>, <<"f","i","l","t","e","r">>},
       reply |-> UpcomingReply],
      [words |-> {<<"r","e","c","o","m","m","e","n","d","a","t","i","o","n">>, <<"s","e","a","r","c","h">>, <<"e","v","e","n","t">>, <<"i","n","t","e","r","e","s","t","e","d">>},
       reply |-> SearchReply],
      [words |-> {<<"h","e","l","l","o">>, <<"h","i">>, <<"h","e","y">>}, reply |-> HelloReply]>>

\* word occurs in text at some position
C10_Occurs(word, text) ==
    \E i \in 1..(Len(text) - Len(word) + 1) :
        \A k \in DOMAIN word : text[i + k - 1] = word[k]

\* the groups that have a keyword in the lower-cased message
C10_Matching(message) ==
    {g \in DOMAIN C10_Groups :
        \E w \in C10_Groups[g].words : C10_Occurs(w, Lower(message))}

C10_Expected(hit) ==
    IF hit = {} THEN FallbackReply
    ELSE C10_Groups[CHOOSE g \in hit : \A h \in hit : g <= h].reply

(* C10: for every message that is not empty, the chatbot answers with the  *)
(* reply of the lowest-numbered keyword group that has a keyword occurring *)
(* in the lower-cased message, and with the fallback reply if and only if  *)
(* no group has one.                                                       *)
C10_FirstMatchPriority ==
    (Handled("chatbot_talk") /\ response.input.message # <<>>)
        => /\ response.body = C10_Expected(C10_Matching(response.input.message))
           /\ response.body = FallbackReply
                  <=> C10_Matching(response.input.message) = {}

\* a message with keywords of the second and the third group, in that order
\* of the groups or the other, got the reply of the second
C10_Reached ==
    /\ Handled("chatbot_talk")
    /\ response.input.message # <<>>
    /\ C10_Matching(response.input.message) = {2, 3}
    /\ C10_Occurs(<<"e","v","e","n","t","f","i","l","t","e","r">>, Lower(response.input.message))
    /\ response.body = UpcomingReply

\* the message holds, in whatever case, one of the three admin keywords
C16_AsksForAdmin(message) ==
    \E w \in {<<"a","d","m","i","n">>, <<"l","o","g","i","n">>, <<"c","r","e","d","e","n","t","i","a","l","s">>} :
        C10_Occurs(w, Lower(message))

(* C16: for every message that holds "admin", "login" or "credentials" in  *)
(* any letter case, the chatbot's reply holds the admin user name and the  *)
(* admin password, whether the session that asks is logged in or not.      *)
C16_CredentialsDisclosed ==
    (Handled("chatbot_talk") /\ C16_AsksForAdmin(response.input.message))
        => /\ C10_Occurs(ADMIN_USER, response.body)
           /\ C10_Occurs(ADMIN_PASS, response.body)
           /\ response.body = CredentialsReply

\* a session that never logged in asked "LOGIN please" and was told the
\* password
C16_Reached ==
    /\ Handled("chatbot_talk")
    /\ ~history.logged_in
    /\ ~session[response.client]
    /\ response.input.message = <<"L","O","G","I","N"," ","p","l","e","a","s","e">>
    /\ C10_Occurs(<<"p","a","s","s","w","o","r","d","1","2","3">>, response.body)

----------------------------------------------------------------------------
(* The home page on its own: lists of events dated around the ends of the  *)
(* window, for days whose window crosses the end of a month or of a year   *)

\* the file holds at most this many events
MaxListed == 2

HomeDates ==
    {<<"2","0","2","4","-","0","2","-","2","1">>, <<"2","0","2","4","-","0","2","-","2","2">>, <<"2","0","2","4","-","0","2","-","2","9">>, <<"2","0","2","4","-","0","3","-","0","1">>,
     <<"2","0","2","5","-","0","2","-","2","9">>, <<"2","0","2","5","-","0","3","-","0","1">>, <<"2","0","2","5","-","0","3","-","0","2">>, <<"2","0","2","5","-","0","1","-","0","1">>,
     <<"2","0","2","5","-","1","-","1">>, <<"2","0","2","5","-","0","1","-","0","2">>, <<"s","o","o","n">>}

HomeTodays == {<<2024, 2, 22>>, <<2025, 2, 22>>, <<2024, 12, 25>>}

HomeEvents ==
    {Dict5(<<"F","a","i","r">>, <<"a","r","t"," ","s","h","o","w">>, d, <<"H","a","l","l">>, <<"u">>) : d \in HomeDates}
        \cup {RecordChess}

HomeFiles == {save_events(l) : l \in SeqsUpTo(HomeEvents, MaxListed)}

InitHome == InitWith(HomeFiles)
NextHome == Home(Clients, HomeTodays)
SpecHome == InitHome /\ [][NextHome]_vars

\* event e has a date that strptime parses
C8_Dated(e) == DictHas(e, Key.date) /\ strptime(DictGet(e, Key.date)).ok

\* the days from today to the date of e
C8_DaysAhead(e, today) ==
    ToOrdinal(strptime(DictGet(e, Key.date)).date) - ToOrdinal(today)

RECURSIVE C8_Expected(_, _)
\* the events dated today to today + 7, in the order of the list
C8_Expected(events, today) ==
    IF events = <<>> THEN <<>>
    ELSE (IF C8_Dated(Head(events)) /\ C8_DaysAhead(Head(events), today) \in 0..7
          THEN <<Head(events)>> ELSE <<>>)
         \o C8_Expected(Tail(events), today)

(* C8: when the home page is rendered, its upcoming events are exactly the *)
(* events of the list whose date is no earlier than today and no later     *)
(* than seven days after today, in the order they have in the list.        *)
C8_UpcomingWindow ==
    Handled("home")
        => response.body.events
               = C8_Expected(history.before, response.input.today)

\* of two events, the one dated seven days after today is listed and the
\* one dated eight days after today is not
C8_Reached ==
    /\ Handled("home")
    /\ Len(history.before) = 2
    /\ C8_Dated(history.before[1]) /\ C8_Dated(history.before[2])
    /\ C8_DaysAhead(history.before[1], response.input.today) = 8
    /\ C8_DaysAhead(history.before[2], response.input.today) = 7
    /\ response.body.events = <<history.before[2]>>

(* C9: for every list of events the file can hold, the home page's filter  *)
(* completes without raising: the request is answered with the page, and   *)
(* no event on it has a date that cannot be parsed.                        *)
C9_FilterNeverRaises ==
    response.route = "home"
        => /\ response.status = 200
           /\ \A k \in DOMAIN response.body.events :
                 C8_Dated(response.body.events[k])

----------------------------------------------------------------------------
(* recommend_events_simple on its own: every list of a few events, some   *)
(* with the same text, some with stop words only, and every top_n          *)

\* the list holds at most this many events
MaxDocs == 3
\* top_n is at most this
MaxTopN == 2

RecommendEvents ==
    {Dict5(<<"A","I"," ","L","a","b">>, <<"a","i"," ","t","a","l","k">>, <<"2","0","2","5","-","0","1","-","1","0">>, <<"H","a","l","l">>, <<"u","1">>),
     Dict5(<<"A","I"," ","L","a","b">>, <<"a","i"," ","t","a","l","k">>, <<"2","0","2","5","-","0","1","-","1","1">>, <<"H","a","l","l">>, <<"u","2">>),
     Dict5(<<"A","r","t"," ","F","a","i","r">>, <<"a","r","t"," ","s","h","o","w">>, <<"2","0","2","5","-","0","1","-","1","2">>, <<"H","a","l","l">>, <<"u","3">>),
     Dict5(<<"A","I"," ","A","r","t">>, <<"a","i"," ","a","r","t">>, <<"2","0","2","5","-","0","1","-","1","3">>, <<"G","y","m">>, <<"u","4">>),
     RecordStop}

RecommendInterests == {<<"A","I">>, <<"a","i"," ","a","r","t">>, <<"m","u","s","i","c">>, <<"t","h","e"," ","h","a","l","l">>}

RecommendFiles ==
    {save_events(l) : l \in SeqsUpTo(RecommendEvents, MaxDocs)}

\* The globals as the hook leaves them, whether it raised or not
InitRecommend ==
    /\ file \in RecommendFiles
    /\ \E init \in {Reinitialize(load_events(file))} :
         /\ GLOBAL_EVENTS = init.events
         /\ GLOBAL_VECTORIZER = init.vectorizer
         /\ GLOBAL_MATRIX = init.matrix
    /\ session = [c \in Sessions |-> FALSE]
    /\ threads = NoThreads
    /\ response = NoResponse
    /\ history = [list |-> load_events(file), mutated |-> FALSE,
                  before |-> load_events(file), file |-> file,
                  logged_in |-> FALSE, sessions |-> session]

(* A call recommend_events_simple(user_interest, GLOBAL_EVENTS, top_n); the *)
(* response holds the arguments and what the call returned or raised.  The *)
(* function reads nothing a call changes, so a call made after another     *)
(* does what it does when made first: each behaviour makes one call.       *)
RecommendEventsSimple(interests, top_ns) ==
    /\ response = NoResponse
    /\ \E user_interest \in interests, top_n \in top_ns :
        \E r \in recommend_events_simple(user_interest, GLOBAL_EVENTS, top_n) :
            /\ response' = [route |-> "recommend_events_simple",
                            client |-> "none",
                            input |-> [user_interest |-> user_interest,
                                       events_list |-> GLOBAL_EVENTS,
                                       top_n |-> top_n],
                            status |-> IF r.raised THEN 500 ELSE 200,
                            location |-> IF r.raised THEN "ValueError" ELSE "",
                            flash |-> NoFlash, body |-> r]
            /\ UNCHANGED <<file, GLOBAL_EVENTS, GLOBAL_VECTORIZER,
                           GLOBAL_MATRIX, session, history, threads>>

NextRecommend == RecommendEventsSimple(RecommendInterests, 0..MaxTopN)
SpecRecommend == InitRecommend /\ [][NextRecommend]_vars

\* the positions of the list whose score is positive
C6_Positives(scores) == {i \in DOMAIN scores : Positive(scores[i])}

\* picked names positions of the list, none twice, and events are the
\* events at those positions
C6_Selection(picked, events, events_list) ==
    /\ Len(events) = Len(picked)
    /\ \A k \in DOMAIN picked :
          /\ picked[k] \in DOMAIN events_list
          /\ events[k] = events_list[picked[k]]
          /\ \A j \in DOMAIN picked : j # k => picked[j] # picked[k]

C6_Ranked(picked, scores, top_n) ==
    /\ Len(picked) <= top_n
    /\ \A k \in DOMAIN picked : Positive(scores[picked[k]])
    /\ \A j, k \in DOMAIN picked :
          j < k => ~ScoreLess(scores[picked[j]], scores[picked[k]])
    /\ \A i \in DOMAIN scores :
          i \notin Range(picked)
              => \A k \in DOMAIN picked :
                    ~ScoreLess(scores[picked[k]], scores[i])
    /\ Cardinality(C6_Positives(scores)) < top_n
          => Len(picked) = Cardinality(C6_Positives(scores))
    /\ Cardinality(C6_Positives(scores)) >= top_n => Len(picked) = top_n

C7_SameScore(s1, s2) == ~ScoreLess(s1, s2) /\ ~ScoreLess(s2, s1)

\* of the positions S, the first of those with the highest score
C7_Best(scores, S) ==
    CHOOSE i \in S :
        \A j \in S :
            /\ ~ScoreLess(scores[i], scores[j])
            /\ C7_SameScore(scores[i], scores[j]) => i <= j

RECURSIVE C7_Ranking(_, _, _)
\* the first n positions of S with a score above zero, by falling score,
\* equal scores in the order of the list
C7_Ranking(scores, S, n) ==
    IF S = {} \/ n <= 0 \/ ~Positive(scores[C7_Best(scores, S)]) THEN <<>>
    ELSE <<C7_Best(scores, S)>>
             \o C7_Ranking(scores, S \ {C7_Best(scores, S)}, n - 1)

C7_Events(events_list, ranking) ==
    [k \in DOMAIN ranking |-> events_list[ranking[k]]]

(* C7: events with equal scores are ranked in the order of the list: the   *)
(* events returned are the first top_n events with a score above zero in   *)
(* the order of falling score in which, of two events with equal scores,   *)
(* the earlier in the list comes first.                                    *)
C7_TiesInListOrder ==
    (Handled("recommend_events_simple") /\ response.input.events_list # <<>>)
        => response.body.events
               = C7_Events(response.input.events_list,
                           C7_Ranking(response.body.scores,
                                      DOMAIN response.body.scores,
                                      response.input.top_n))

(* C14: recommend_events_simple called with an empty list of events        *)
(* returns the empty list and raises nothing, whatever the query and       *)
(* whatever top_n.                                                         *)
C14_EmptyListEmptyResult ==
    (response.route = "recommend_events_simple"
     /\ response.input.events_list = <<>>)
        => /\ response.status = 200
           /\ ~response.body.raised
           /\ response.body.events = <<>>

\* two events were asked for from an empty list with the query "ai art",
\* and none were returned
C14_Reached ==
    /\ Handled("recommend_events_simple")
    /\ response.input.events_list = <<>>
    /\ response.input.user_interest = <<"a","i"," ","a","r","t">>
    /\ response.input.top_n = 2
    /\ response.body.events = <<>>


----------------------------------------------------------------------------
(* save_events and load_events on their own: lists of events whose fields  *)
(* come in several orders, whose texts hold quotes, backslashes and line   *)
(* breaks, and whose dates are not always dates                            *)

RecordFairSorted ==
    Dict5(<<"A","r","t"," ","F","a","i","r">>, <<"a","r","t"," ","s","h","o","w">>, <<"2","0","2","5","-","0","1","-","1","5">>, <<"t","h","e"," ","h","a","l","l">>, <<"u","0">>)
        \o <<<<<<"c","a","t","e","g","o","r","y">>, <<"A","r","t","s">>>>>>
\* texts with a quote, a backslash and a line break; a date that is none
RecordQuoted ==
    Dict5(<<"5", "\"", " ", "D", "i", "s", "k">>, <<"a", " ", "\\", " ", "b">>,
          <<"s","o","o","n">>, <<"H", "a", "l", "l", "\n", "A">>, <<"\\", "\"">>)
\* a day the calendar does not have
RecordLeap == Dict5(<<"L","e","a","p">>, <<"l","e","a","p"," ","d","a","y">>, <<"2","0","2","5","-","0","2","-","2","9">>, <<"G","y","m">>, <<"u","6">>)
NoFields == <<>>

FileRecords ==
    {FormLab, RecordFair, RecordFairSorted, RecordChess, RecordStop,
     RecordQuoted, RecordLeap, NoFields}

FileLists == SeqsUpTo(FileRecords, MaxListed)

\* a list in memory and no file yet
InitFile ==
    /\ file = NoFile
    /\ GLOBAL_EVENTS \in FileLists
    /\ GLOBAL_VECTORIZER = None
    /\ GLOBAL_MATRIX = NoMatrix
    /\ session = [c \in Sessions |-> FALSE]
    /\ threads = NoThreads
    /\ response = NoResponse
    /\ history = [list |-> <<>>, mutated |-> FALSE, before |-> <<>>,
                  file |-> NoFile, logged_in |-> FALSE,
                  sessions |-> session]

\* a call save_events(GLOBAL_EVENTS); history.list is the list it was given
SaveEvents ==
    /\ file' = save_events(GLOBAL_EVENTS)
    /\ response' = [NoResponse EXCEPT !.route = "save_events",
                                      !.input = GLOBAL_EVENTS]
    /\ history' = [history EXCEPT !.list = GLOBAL_EVENTS, !.mutated = TRUE,
                                  !.before = GLOBAL_EVENTS, !.file = file]
    /\ UNCHANGED <<GLOBAL_EVENTS, GLOBAL_VECTORIZER, GLOBAL_MATRIX, session,
                   threads>>

\* GLOBAL_EVENTS = load_events()
LoadEvents ==
    /\ GLOBAL_EVENTS' = load_events(file)
    /\ response' = [NoResponse EXCEPT !.route = "load_events",
                                      !.body = load_events(file)]
    /\ history' = [history EXCEPT !.before = GLOBAL_EVENTS, !.file = file]
    /\ UNCHANGED <<file, GLOBAL_VECTORIZER, GLOBAL_MATRIX, session, threads>>

NextFile == SaveEvents \/ LoadEvents
SpecFile == InitFile /\ [][NextFile]_vars

\* events e1 and e2 have the same fields with the same values
C11_SameFields(e1, e2) ==
    /\ \A i \in DOMAIN e1 :
          \E j \in DOMAIN e2 : e2[j][1] = e1[i][1] /\ e2[j][2] = e1[i][2]
    /\ \A j \in DOMAIN e2 : \E i \in DOMAIN e1 : e1[i][1] = e2[j][1]

(* C11: a load after a save returns the list that was saved: as many       *)
(* events, in the same order, each with the same fields and the same       *)
(* values, whatever the order of the fields in the record.                 *)
C11_RoundTrip ==
    (response.route = "load_events" /\ history.mutated)
        => /\ Len(response.body) = Len(history.list)
           /\ \A i \in DOMAIN response.body :
                 C11_SameFields(response.body[i], history.list[i])

\* two events with the same fields in different orders, one with quotes and
\* backslashes in its texts, were saved and loaded
C11_Reached ==
    /\ response.route = "load_events"
    /\ history.mutated
    /\ history.list = <<RecordFair, RecordQuoted>>
    /\ C11_SameFields(response.body[1], RecordFairSorted)
    /\ response.body[1] # RecordFairSorted

(* C13: a record whose date does not parse does not abort the load: the    *)
(* list loaded after a save has as many events as the list saved, and      *)
(* every loaded event that has a date has a valid calendar date (a date    *)
(* that did not parse having been replaced by the day's date).             *)
C13_LoadedDatesValid ==
    (response.route = "load_events" /\ history.mutated)
        => /\ Len(response.body) = Len(history.list)
           /\ \A i \in DOMAIN response.body :
                 DictHas(response.body[i], Key.date)
                     => strptime(DictGet(response.body[i], Key.date)).ok


----------------------------------------------------------------------------
(* Logging in and out and the three mutations, asked by two sessions       *)

InitAuth == InitWith({NoFile, save_events(<<RecordFair>>)})
NextAuth ==
    \/ LoginRequest(Sessions, LoginForms)
    \/ Logout(Sessions)
    \/ AddEvent(Sessions, {FormLab, FormShort})
    \/ EditEvent(Sessions, {FormLab2, FormShort})
    \/ DeleteEvent(Sessions)
SpecAuth == InitAuth /\ [][NextAuth]_vars

\* the last request was a login POST with the admin's name and password
C17_AdminLogin ==
    /\ response.route = "login"
    /\ response.input.method = "POST"
    /\ DictGet(response.input.form, Key.username) = <<"a","d","m","i","n">>
    /\ DictGet(response.input.form, Key.password) = <<"p","a","s","s","w","o","r","d","1","2","3">>

(* C17: mutations are gated by the login session.  An add, edit or delete  *)
(* request leaves the list of events other than the hook loaded it, or the *)
(* file other than it found it, only if the session that asks had          *)
(* logged_in set.  A session's logged_in goes from unset to set only by    *)
(* its own login POST with the admin's user name and password; every other *)
(* login request leaves it as it was, so a failed login leaves it unset;   *)
(* a logout unsets it; no request changes another session's logged_in.     *)
(* Hence after its logout a session's mutating requests change nothing     *)
(* until it logs in again.                                                 *)
C17_GatedByLogin ==
    response.route # "none"
        => /\ (response.route \in Mutating
               /\ (GLOBAL_EVENTS # history.before \/ file # history.file))
                 => history.logged_in
           /\ (session[response.client] /\ ~history.logged_in)
                 => C17_AdminLogin
           /\ (response.route = "login" /\ ~C17_AdminLogin)
                 => session[response.client] = history.logged_in
           /\ response.route = "logout" => ~session[response.client]
           /\ response.route \notin {"login", "logout"}
                 => session[response.client] = history.logged_in
           /\ \A c \in Sessions \ {response.client} :
                 session[c] = history.sessions[c]

\* a session that is logged out, while the other session is logged in, asked
\* to delete the first event of a list of one, and the list and the file
\* are as they were
C17_Reached ==
    /\ Handled("delete_event")
    /\ response.input.index = 0
    /\ ~history.logged_in
    /\ \E c \in Sessions \ {response.client} : session[c]
    /\ Len(history.before) = 1
    /\ GLOBAL_EVENTS = history.before
    /\ file = history.file
    /\ response.location = "login"


----------------------------------------------------------------------------
(* Requests served by two threads at once.  A step is a statement that     *)
(* reads or writes the globals or the file: the two statements of the      *)
(* hook, the checks of a view function up to its first write of the list,  *)
(* the assignments of an edit, and the save with the response after it.    *)
(* Every statement looks GLOBAL_EVENTS up anew; only event_to_edit keeps   *)
(* hold of an object, the dict of the list as it was at app.py:232.        *)

RaceRequests ==
    {[route |-> "login",
      input |-> [method |-> "POST", form |-> Login(ADMIN_USER, ADMIN_PASS)]],
     [route |-> "add_event", input |-> [form |-> FormLab]]}
        \cup {[route |-> "edit_event",
               input |-> [index |-> 0, method |-> "POST", form |-> FormLab2]]}

\* threads after a step of t that leaves it as rec; rebound says that the
\* step bound GLOBAL_EVENTS to a new list, which holds no dict of the old
Stepped(t, rec, rebound) ==
    [u \in Threads |->
        IF u = t THEN rec
        ELSE IF threads[u].pc = "idle" THEN threads[u]
        ELSE [threads[u] EXCEPT !.alone = FALSE,
                                !.at = IF rebound THEN 0 ELSE @]]

\* the response of thread t's request, and the thread idle again
Respond(t, status, location, flash, body) ==
    /\ response' = [route |-> threads[t].route, client |-> threads[t].client,
                    input |-> threads[t].input, status |-> status,
                    location |-> location, flash |-> flash, body |-> body]
    /\ threads' = Stepped(t, Idle, FALSE)

\* a request arrives and the hook runs GLOBAL_EVENTS = load_events(),
\* app.py:110
RaceRebind(t) ==
    /\ threads[t].pc = "idle"
    /\ \E c \in Clients, r \in RaceRequests :
         /\ r.route = "add_event" => Len(load_events(file)) < MaxEvents
         /\ GLOBAL_EVENTS' = load_events(file)
         /\ threads' = Stepped(t, [pc |-> "hook", route |-> r.route,
                                   client |-> c, input |-> r.input,
                                   logged_in |-> session[c], at |-> 0,
                                   event |-> <<>>, alone |-> TRUE], TRUE)
    /\ UNCHANGED <<file, GLOBAL_VECTORIZER, GLOBAL_MATRIX, session, response,
                   history>>

\* GLOBAL_VECTORIZER, GLOBAL_MATRIX = get_ai_components(GLOBAL_EVENTS),
\* app.py:112, on the list GLOBAL_EVENTS names by then
RaceFit(t) ==
    /\ threads[t].pc = "hook"
    /\ \E ai \in {get_ai_components(GLOBAL_EVENTS)} :
         IF ai.raised
         THEN /\ Respond(t, 500, "ValueError", NoFlash, <<>>)
              /\ UNCHANGED <<GLOBAL_VECTORIZER, GLOBAL_MATRIX>>
         ELSE /\ GLOBAL_VECTORIZER' = ai.vectorizer
              /\ GLOBAL_MATRIX' = ai.matrix
              /\ threads' = Stepped(t, [threads[t] EXCEPT !.pc = "view"],
                                    FALSE)
              /\ UNCHANGED response
    /\ UNCHANGED <<file, GLOBAL_EVENTS, session, history>>

\* login(), app.py:167-177
RaceLogin(t) ==
    /\ threads[t].pc = "view"
    /\ threads[t].route = "login"
    /\ \E out \in {login(GLOBAL_EVENTS, file, threads[t].logged_in,
                         threads[t].input.method, threads[t].input.form)} :
         /\ session' = [session EXCEPT ![threads[t].client] = out.logged_in]
         /\ Respond(t, out.status, out.location, out.flash, out.body)
    /\ UNCHANGED <<file, GLOBAL_EVENTS, GLOBAL_VECTORIZER, GLOBAL_MATRIX,
                   history>>

\* add_event() as far as GLOBAL_EVENTS.append(new_event), app.py:200-217
RaceAppend(t) ==
    /\ threads[t].pc = "view"
    /\ threads[t].route = "add_event"
    /\ \E out \in {add_event(GLOBAL_EVENTS, file, threads[t].logged_in,
                             threads[t].input.form)} :
         IF Succeeded(out)
         THEN /\ GLOBAL_EVENTS'
                    = Append(GLOBAL_EVENTS, NewEvent(threads[t].input.form))
              /\ threads'
                    = Stepped(t, [threads[t] EXCEPT
                                     !.pc = "save",
                                     !.event = NewEvent(threads[t].input.form)],
                              FALSE)
              /\ UNCHANGED response
         ELSE /\ Respond(t, out.status, out.location, out.flash, out.body)
              /\ UNCHANGED GLOBAL_EVENTS
    /\ UNCHANGED <<file, GLOBAL_VECTORIZER, GLOBAL_MATRIX, session, history>>

\* edit_event(index) as far as event_to_edit = GLOBAL_EVENTS[index],
\* app.py:225-232
RaceLookup(t) ==
    /\ threads[t].pc = "view"
    /\ threads[t].route = "edit_event"
    /\ IF /\ threads[t].logged_in
          /\ threads[t].input.index < Len(GLOBAL_EVENTS)
       THEN /\ threads'
                  = Stepped(t, [threads[t] EXCEPT
                                   !.pc = "assign",
                                   !.at = threads[t].input.index + 1,
                                   !.event
                                      = GLOBAL_EVENTS[threads[t].input.index + 1]],
                            FALSE)
            /\ UNCHANGED response
       ELSE \E out \in {edit_event(GLOBAL_EVENTS, file, threads[t].logged_in,
                                   threads[t].input.index,
                                   threads[t].input.method,
                                   threads[t].input.form)} :
                Respond(t, out.status, out.location, out.flash, out.body)
    /\ UNCHANGED <<file, GLOBAL_EVENTS, GLOBAL_VECTORIZER, GLOBAL_MATRIX,
                   session, history>>

\* the list GLOBAL_EVENTS names after the dict at place at, if it holds that
\* dict, has become event
Assigned(at, event) ==
    IF at = 0 THEN GLOBAL_EVENTS ELSE [GLOBAL_EVENTS EXCEPT ![at] = event]

\* the five assignments to event_to_edit, app.py:238-242, or those before
\* the KeyError with its flash and redirect, app.py:250-252
RaceAssign(t) ==
    /\ threads[t].pc = "assign"
    /\ \E a \in {Assign(threads[t].event, threads[t].input.form,
                        required_fields)} :
         /\ GLOBAL_EVENTS' = Assigned(threads[t].at, a.event)
         /\ IF a.raised
            THEN Respond(t, 302, "edit_event",
                         <<"Missing form field: {e}. Please check your HTML form names.",
                           "danger">>, <<>>)
            ELSE /\ threads' = Stepped(t, [threads[t] EXCEPT !.pc = "save",
                                                             !.event = a.event],
                                       FALSE)
                 /\ UNCHANGED response
    /\ UNCHANGED <<file, GLOBAL_VECTORIZER, GLOBAL_MATRIX, session, history>>

\* a success reported with nothing written
RaceSaveNothing(t) ==
    /\ threads[t].pc = "save"
    /\ Respond(t, 302, "admin_dashboard", <<"saved", "success">>,
               [written |-> load_events(file), event |-> threads[t].event,
                alone |-> threads[t].alone])
    /\ UNCHANGED <<file, GLOBAL_EVENTS, GLOBAL_VECTORIZER, GLOBAL_MATRIX,
                   session, history>>

\* save_events(GLOBAL_EVENTS), the flash of success and the redirect,
\* app.py:218-220 and 245-248.  The body of the response is a ghost: the
\* list that was written, the event the request made, and alone.
RaceSave(t) ==
    /\ threads[t].pc = "save"
    /\ \E out \in {SaveAndRedirect(GLOBAL_EVENTS, threads[t].logged_in,
                                   "saved")} :
         /\ file' = out.file
         /\ Respond(t, out.status, out.location, out.flash,
                    [written |-> GLOBAL_EVENTS, event |-> threads[t].event,
                     alone |-> threads[t].alone])
    /\ UNCHANGED <<GLOBAL_EVENTS, GLOBAL_VECTORIZER, GLOBAL_MATRIX, session,
                   history>>

InitRace == InitWith({save_events(<<RecordFair>>)})
NextRace ==
    \E t \in Threads :
        \/ RaceRebind(t)
        \/ RaceFit(t)
        \/ RaceLogin(t)
        \/ RaceAppend(t)
        \/ RaceLookup(t)
        \/ RaceAssign(t)
        \/ RaceSave(t)
SpecRace == InitRace /\ [][NextRace]_vars

\* the last request reported success, and the list it wrote to the file
\* holds no event equal to the one it added, or holds at the index it edited
\* something other than the event it made
C15_Lost ==
    /\ response.route \in {"add_event", "edit_event"}
    /\ Succeeded(response)
    /\ \/ /\ response.route = "add_event"
          /\ \A i \in DOMAIN response.body.written :
                response.body.written[i] # response.body.event
       \/ /\ response.route = "edit_event"
          /\ \/ response.input.index >= Len(response.body.written)
             \/ response.body.written[response.input.index + 1]
                   # response.body.event

(* C15: nothing keeps two requests apart, and with interleaved requests a  *)
(* mutating request can report success with its mutation absent from the   *)
(* file it wrote (a lost update, the state of C15_Reached).  It is the     *)
(* interleaving that loses it: a request loses its update only when        *)
(* another thread took a step while it was being served.                   *)
C15_LostUpdate ==
    C15_Lost => ~response.body.alone

\* an edit of the only event reported success, and the file the request
\* wrote holds the event as it was before the edit
C15_Reached ==
    /\ C15_Lost
    /\ response.route = "edit_event"
    /\ ~response.body.alone
    /\ response.body.written = <<RecordFair>>
    /\ load_events(file) = <<RecordFair>>
    /\ DictGet(response.body.event, Key.title) = <<"a","i"," ","l","a","b">>

====
